---- MODULE Spec2Model ----
\* Lifecycle of the pooled AMQP channel resource of src/src/lib.rs: the four
\* lode callbacks init / aquire / release / close, the heartbeat task spawned
\* by init and the Arc<AtomicBool> it shares with the callbacks.
\*
\* Every future of lib.rs is modelled step by step: one action per resolution
\* of a suspension point (steal_resource, Client::connect, the lazy flag
\* check, create_channel, basic_qos).  The heartbeat task is a separate
\* process that may terminate between any two steps.
\*
\* Option<T> values are sequences: <<>> is None, <<x>> is Some(x).
EXTENDS Naturals, Integers, Sequences, FiniteSets, TLC

\* ------------------------------------------------------------------ bounds
\* Callback invocations (init, aquire, release, close) made by the lode engine.
MaxInvocations == 6
\* Largest number of handshakes the scripted broker of SpecRetry rejects.
MaxRejects == 4

\* ------------------------------------------------------------- data model
None == <<>>
Some(x) == <<x>>

\* prefetch_count values the lifecycle is spawned with: the default of
\* AmqpParams::default() and the value of the spec's QoS scenario.
PrefetchCounts == {16, 32}

\* struct AmqpParams
AmqpParams(user, pass, prefetch_count) ==
    [user |-> user, pass |-> pass, prefetch_count |-> prefetch_count]

\* impl Default for AmqpParams
DefaultAmqpParams == AmqpParams("guest", "guest", 32)

\* The Params.amqp_params values spawn may be given.
SpawnParams == {AmqpParams("guest", "guest", p) : p \in PrefetchCounts}

\* LodeResource<TcpStream>: the handle of the transport pool.  steal_resource
\* consumes the handle and gives back the handle to use from then on; the
\* handle records how many resources were stolen through it.
TcpLode(stolen) == [lode |-> "tcp", stolen |-> stolen]

\* struct InitState
InitState(amqp_params, tcp_lode, executor) ==
    [amqp_params |-> amqp_params, tcp_lode |-> tcp_lode, executor |-> executor]

\* struct AmqpConnected; heartbeat_gone is the index of the shared cell.
AmqpConnected(init_state, client, heartbeat_gone) ==
    [init_state |-> init_state, client |-> client, heartbeat_gone |-> heartbeat_gone]

\* A future that is not running.
IdleFuture ==
    [pc |-> "idle", init_state |-> None, tcp_stream |-> None, client |-> None,
     heartbeat_gone |-> None, channel |-> None, connected |-> None]

\* No callback has resolved since the last invocation.
Pending ==
    [tag |-> "Pending", stage |-> "none", state |-> None, connected |-> None,
     channel |-> None, gone |-> None]

\* Result<_, ErrorSeverity<InitState, ()>> as the lode engine receives it,
\* with the value the liveness cell held when the future resolved.
Outcome(tag, stage, state, connected, channel, gone) ==
    [tag |-> tag, stage |-> stage, state |-> state, connected |-> connected,
     channel |-> channel, gone |-> gone]

VARIABLES
    spawn_params,   \* Params.amqp_params handed to spawn
    lode,           \* what the lode engine holds between invocations
    fut,            \* the running callback future and its captured values
    inv,            \* the current invocation: arguments and primitive calls
    outcome,        \* how the current invocation resolved
    flags,          \* the Arc<AtomicBool> cells, in order of creation
    tasks,          \* the heartbeat tasks spawned on the executor
    pool,           \* the tcp lode (transport pool)
    broker,         \* the broker: channels with their QoS, handshake script
    stats           \* counters over the whole run

vars == <<spawn_params, lode, fut, inv, outcome, flags, tasks, pool, broker, stats>>

\* ---------------------------------------------------------------- helpers
\* A primitive of the collaborators that a callback has called, and how it
\* resolved ("pending" until it does).
Called(calls, prim) == Append(calls, [prim |-> prim, res |-> "pending"])
Resolved(calls, res) == [calls EXCEPT ![Len(calls)].res = res]

\* The state of the heartbeat task holding a clone of the given cell.
TaskStatus(cell) ==
    IF \E t \in 1..Len(tasks) : tasks[t].flag = cell
    THEN tasks[CHOOSE t \in 1..Len(tasks) : tasks[t].flag = cell].status
    ELSE "none"

\* The invocation record of a callback the engine has just invoked.
Invocation(op, arg_state, arg_connected, arg_session, calls) ==
    [op |-> op, arg_state |-> arg_state, arg_connected |-> arg_connected,
     arg_session |-> arg_session,
     gone_at_call |-> IF arg_connected = None THEN None
                      ELSE Some(flags[arg_connected[1].heartbeat_gone]),
     task_at_call |-> IF arg_connected = None THEN None
                      ELSE Some(TaskStatus(arg_connected[1].heartbeat_gone)),
     gone_read |-> None,
     calls |-> calls]

\* The engine may invoke a callback: none is running, the lifecycle has not
\* ended with Fatal, and the run is within its bound.
CanInvoke ==
    /\ fut.pc = "idle"
    /\ ~lode.fatal
    /\ stats.invocations < MaxInvocations

\* ------------------------------------------------------------------- spawn
\* spawn: the engine starts with the InitState built from the parameters.
SpawnInit(params) ==
    /\ spawn_params = params
    /\ lode = [state |-> Some(InitState(params, TcpLode(0), "executor")),
               connected |-> None, lent |-> None, fatal |-> FALSE]
    /\ fut = IdleFuture
    /\ inv = [op |-> "none", arg_state |-> None, arg_connected |-> None,
              arg_session |-> None, gone_at_call |-> None, task_at_call |-> None,
              gone_read |-> None, calls |-> <<>>]
    /\ outcome = Pending
    /\ flags = <<>>
    /\ tasks = <<>>
    /\ pool = [stolen |-> 0]
    /\ stats = [invocations |-> 0, init_calls |-> 0, connect_calls |-> 0,
                recoverable |-> 0, aquire_errors |-> 0]

Init ==
    /\ \E params \in SpawnParams : SpawnInit(params)
    /\ broker = [channels |-> <<>>, script |-> None, rejects |-> None]

\* -------------------------------------------------------------------- init
\* init is invoked: the InitState is destructured and steal_resource called.
InitCall ==
    /\ CanInvoke
    /\ lode.state # None
    /\ fut' = [IdleFuture EXCEPT !.pc = "steal_resource", !.init_state = lode.state]
    /\ lode' = [lode EXCEPT !.state = None]
    /\ inv' = Invocation("init", lode.state, None, None, Called(<<>>, "steal_resource"))
    /\ outcome' = Pending
    /\ stats' = [stats EXCEPT !.invocations = @ + 1, !.init_calls = @ + 1]
    /\ UNCHANGED <<spawn_params, flags, tasks, pool, broker>>

\* steal_resource fails: the tcp lode is gone, Fatal(()); the parameters
\* captured by the and_then closure are dropped with it.
InitStealErr ==
    /\ fut.pc = "steal_resource"
    /\ fut' = IdleFuture
    /\ inv' = [inv EXCEPT !.calls = Resolved(@, "err")]
    /\ outcome' = Outcome("Fatal", "steal_resource", None, None, None, None)
    /\ lode' = [lode EXCEPT !.fatal = TRUE]
    /\ UNCHANGED <<spawn_params, flags, tasks, pool, broker, stats>>

\* steal_resource gives (tcp_stream, tcp_lode); Client::connect is called.
InitStealOk ==
    /\ fut.pc = "steal_resource"
    /\ pool' = [pool EXCEPT !.stolen = @ + 1]
    /\ fut' = [fut EXCEPT
                 !.pc = "connect",
                 !.tcp_stream = Some([id |-> pool.stolen + 1]),
                 !.init_state = Some(InitState(fut.init_state[1].amqp_params,
                                               TcpLode(pool.stolen + 1),
                                               fut.init_state[1].executor))]
    /\ inv' = [inv EXCEPT !.calls = Called(Resolved(@, "ok"), "connect")]
    /\ stats' = [stats EXCEPT !.connect_calls = @ + 1]
    /\ UNCHANGED <<spawn_params, lode, outcome, flags, tasks, broker>>

\* The broker accepts the next handshake (always, when it follows no script).
BrokerAccepts == broker.script = None \/ broker.script = Some(0)
\* The broker rejects the next handshake.
BrokerRejects == broker.script = None \/ (broker.script # None /\ broker.script[1] > 0)
BrokerAfterReject ==
    IF broker.script = None THEN broker
    ELSE [broker EXCEPT !.script = Some(broker.script[1] - 1)]

\* InitConnectOk with one cell for every connection, made by the first init
\* and cloned by the later ones.
InitConnectOk_SharedFlag ==
    /\ fut.pc = "connect"
    /\ BrokerAccepts
    /\ LET client == [id |-> stats.connect_calls, tcp_stream |-> fut.tcp_stream[1]]
           connected == AmqpConnected(fut.init_state[1], client, 1)
       IN /\ flags' = IF flags = <<>> THEN <<FALSE>> ELSE flags
          /\ tasks' = Append(tasks, [flag |-> 1, status |-> "running"])
          /\ outcome' = Outcome("Ok", "connect", None, Some(connected), None,
                                Some(flags'[1]))
          /\ lode' = [lode EXCEPT !.connected = Some(connected)]
    /\ fut' = IdleFuture
    /\ inv' = [inv EXCEPT !.calls = Resolved(@, "ok")]
    /\ UNCHANGED <<spawn_params, pool, broker, stats>>

\* InitConnectOk without the executor.spawn of the heartbeat future.
InitConnectOk_NoSpawn ==
    /\ fut.pc = "connect"
    /\ BrokerAccepts
    /\ LET heartbeat_gone_lode == Len(flags) + 1
           client == [id |-> stats.connect_calls, tcp_stream |-> fut.tcp_stream[1]]
           connected == AmqpConnected(fut.init_state[1], client, heartbeat_gone_lode)
       IN /\ flags' = Append(flags, FALSE)
          /\ outcome' = Outcome("Ok", "connect", None, Some(connected), None, Some(FALSE))
          /\ lode' = [lode EXCEPT !.connected = Some(connected)]
    /\ fut' = IdleFuture
    /\ inv' = [inv EXCEPT !.calls = Resolved(@, "ok")]
    /\ UNCHANGED <<spawn_params, tasks, pool, broker, stats>>

\* InitConnectOk leaving a copy of the InitState at rest with the engine
\* beside the one inside the connected value.
InitConnectOk_KeepsState ==
    /\ fut.pc = "connect"
    /\ BrokerAccepts
    /\ LET heartbeat_gone_lode == Len(flags) + 1
           client == [id |-> stats.connect_calls, tcp_stream |-> fut.tcp_stream[1]]
           connected == AmqpConnected(fut.init_state[1], client, heartbeat_gone_lode)
       IN /\ flags' = Append(flags, FALSE)
          /\ tasks' = Append(tasks, [flag |-> heartbeat_gone_lode, status |-> "running"])
          /\ outcome' = Outcome("Ok", "connect", None, Some(connected), None, Some(FALSE))
          /\ lode' = [lode EXCEPT !.connected = Some(connected), !.state = fut.init_state]
    /\ fut' = IdleFuture
    /\ inv' = [inv EXCEPT !.calls = Resolved(@, "ok")]
    /\ UNCHANGED <<spawn_params, pool, broker, stats>>

\* connect succeeds: a new cell holding false, the heartbeat task spawned on
\* the executor with a clone of it, Ok(AmqpConnected).
InitConnectOk ==
    /\ fut.pc = "connect"
    /\ BrokerAccepts
    /\ LET heartbeat_gone_lode == Len(flags) + 1
           client == [id |-> stats.connect_calls, tcp_stream |-> fut.tcp_stream[1]]
           connected == AmqpConnected(fut.init_state[1], client, heartbeat_gone_lode)
       IN /\ flags' = Append(flags, FALSE)
          /\ tasks' = Append(tasks, [flag |-> heartbeat_gone_lode, status |-> "running"])
          /\ outcome' = Outcome("Ok", "connect", None, Some(connected), None, Some(FALSE))
          /\ lode' = [lode EXCEPT !.connected = Some(connected)]
    /\ fut' = IdleFuture
    /\ inv' = [inv EXCEPT !.calls = Resolved(@, "ok")]
    /\ UNCHANGED <<spawn_params, pool, broker, stats>>

\* InitConnectErr with the handshake failure escalated to Fatal.
InitConnectErr_Fatal ==
    /\ fut.pc = "connect"
    /\ BrokerRejects
    /\ broker' = BrokerAfterReject
    /\ outcome' = Outcome("Fatal", "connect", None, None, None, None)
    /\ lode' = [lode EXCEPT !.fatal = TRUE]
    /\ fut' = IdleFuture
    /\ inv' = [inv EXCEPT !.calls = Resolved(@, "err")]
    /\ UNCHANGED <<spawn_params, flags, tasks, pool, stats>>

\* InitConnectErr with the InitState rebuilt from the lode handle that init
\* was given instead of the one steal_resource gave back.
InitConnectErr_StaleLode ==
    /\ fut.pc = "connect"
    /\ BrokerRejects
    /\ broker' = BrokerAfterReject
    /\ LET state == Some(InitState(fut.init_state[1].amqp_params,
                                   inv.arg_state[1].tcp_lode,
                                   fut.init_state[1].executor))
       IN /\ outcome' = Outcome("Recoverable", "connect", state, None, None, None)
          /\ lode' = [lode EXCEPT !.state = state]
    /\ fut' = IdleFuture
    /\ inv' = [inv EXCEPT !.calls = Resolved(@, "err")]
    /\ stats' = [stats EXCEPT !.recoverable = @ + 1]
    /\ UNCHANGED <<spawn_params, flags, tasks, pool>>

\* connect fails: Recoverable with the InitState rebuilt from the captured
\* parameters, the stolen lode handle and the executor.
InitConnectErr ==
    /\ fut.pc = "connect"
    /\ BrokerRejects
    /\ broker' = BrokerAfterReject
    /\ outcome' = Outcome("Recoverable", "connect", fut.init_state, None, None, None)
    /\ lode' = [lode EXCEPT !.state = fut.init_state]
    /\ fut' = IdleFuture
    /\ inv' = [inv EXCEPT !.calls = Resolved(@, "err")]
    /\ stats' = [stats EXCEPT !.recoverable = @ + 1]
    /\ UNCHANGED <<spawn_params, flags, tasks, pool>>

\* -------------------------------------------------------- heartbeat task
\* HeartbeatDone with the store made in the Err arm only.
HeartbeatDone_ErrOnly(t, res) ==
    /\ tasks[t].status = "running"
    /\ flags' = [flags EXCEPT ![tasks[t].flag] = (res = "err")]
    /\ tasks' = [tasks EXCEPT ![t].status = res]
    /\ UNCHANGED <<spawn_params, lode, fut, inv, outcome, pool, broker, stats>>

\* The heartbeat future of task t resolves with res ("ok" or "err"): the
\* task stores true into its cell and ends.
HeartbeatDone(t, res) ==
    /\ tasks[t].status = "running"
    /\ flags' = [flags EXCEPT ![tasks[t].flag] = TRUE]
    /\ tasks' = [tasks EXCEPT ![t].status = res]
    /\ UNCHANGED <<spawn_params, lode, fut, inv, outcome, pool, broker, stats>>

\* ------------------------------------------------------------------ aquire
\* aquire is invoked: the AmqpConnected is destructured into the future.
AquireCall ==
    /\ CanInvoke
    /\ lode.connected # None
    /\ lode.lent = None
    /\ LET connected == lode.connected[1]
       IN fut' = [IdleFuture EXCEPT
                    !.pc = "aquire_lazy",
                    !.init_state = Some(connected.init_state),
                    !.client = Some(connected.client),
                    !.heartbeat_gone = Some(connected.heartbeat_gone)]
    /\ lode' = [lode EXCEPT !.connected = None]
    /\ inv' = Invocation("aquire", None, lode.connected, None, <<>>)
    /\ outcome' = Pending
    /\ stats' = [stats EXCEPT !.invocations = @ + 1]
    /\ UNCHANGED <<spawn_params, flags, tasks, pool, broker>>

\* AquireHeartbeatGone with the test of the load inverted.
AquireHeartbeatGone_Inverted ==
    /\ fut.pc = "aquire_lazy"
    /\ ~flags[fut.heartbeat_gone[1]]
    /\ outcome' = Outcome("Recoverable", "heartbeat_gone", fut.init_state, None, None,
                          Some(flags[fut.heartbeat_gone[1]]))
    /\ lode' = [lode EXCEPT !.state = fut.init_state]
    /\ fut' = IdleFuture
    /\ inv' = [inv EXCEPT !.gone_read = Some(flags[fut.heartbeat_gone[1]])]
    /\ stats' = [stats EXCEPT !.recoverable = @ + 1]
    /\ UNCHANGED <<spawn_params, flags, tasks, pool, broker>>

\* The lazy closure loads true: Recoverable with the InitState.
AquireHeartbeatGone ==
    /\ fut.pc = "aquire_lazy"
    /\ flags[fut.heartbeat_gone[1]]
    /\ outcome' = Outcome("Recoverable", "heartbeat_gone", fut.init_state, None, None,
                          Some(flags[fut.heartbeat_gone[1]]))
    /\ lode' = [lode EXCEPT !.state = fut.init_state]
    /\ fut' = IdleFuture
    /\ inv' = [inv EXCEPT !.gone_read = Some(flags[fut.heartbeat_gone[1]])]
    /\ stats' = [stats EXCEPT !.recoverable = @ + 1]
    /\ UNCHANGED <<spawn_params, flags, tasks, pool, broker>>

\* AquireHeartbeatAlive going on to create_channel whatever the cell holds.
AquireHeartbeatAlive_NoCheck ==
    /\ fut.pc = "aquire_lazy"
    /\ fut' = [fut EXCEPT !.pc = "create_channel"]
    /\ inv' = [inv EXCEPT !.gone_read = Some(flags[fut.heartbeat_gone[1]]),
                          !.calls = Called(@, "create_channel")]
    /\ UNCHANGED <<spawn_params, lode, outcome, flags, tasks, pool, broker, stats>>

\* The lazy closure loads false: create_channel is called on the client.
AquireHeartbeatAlive ==
    /\ fut.pc = "aquire_lazy"
    /\ ~flags[fut.heartbeat_gone[1]]
    /\ fut' = [fut EXCEPT !.pc = "create_channel"]
    /\ inv' = [inv EXCEPT !.gone_read = Some(flags[fut.heartbeat_gone[1]]),
                          !.calls = Called(@, "create_channel")]
    /\ UNCHANGED <<spawn_params, lode, outcome, flags, tasks, pool, broker, stats>>

\* CreateChannelOk putting the AmqpConnected together with a new cell.
CreateChannelOk_FreshFlag ==
    /\ fut.pc = "create_channel"
    /\ LET channel == [id |-> Len(broker.channels) + 1, client |-> fut.client[1].id]
           connected == AmqpConnected(fut.init_state[1], fut.client[1], Len(flags) + 1)
       IN fut' = [IdleFuture EXCEPT
                    !.pc = "basic_qos",
                    !.channel = Some(channel),
                    !.connected = Some(connected)]
    /\ flags' = Append(flags, FALSE)
    /\ broker' = [broker EXCEPT !.channels = Append(@, None)]
    /\ inv' = [inv EXCEPT !.calls = Called(Resolved(@, "ok"), "basic_qos")]
    /\ UNCHANGED <<spawn_params, lode, outcome, tasks, pool, stats>>

\* create_channel succeeds: the AmqpConnected is put together again from the
\* captured parts and basic_qos is called with the configured prefetch_count.
CreateChannelOk ==
    /\ fut.pc = "create_channel"
    /\ LET channel == [id |-> Len(broker.channels) + 1, client |-> fut.client[1].id]
           connected == AmqpConnected(fut.init_state[1], fut.client[1], fut.heartbeat_gone[1])
       IN fut' = [IdleFuture EXCEPT
                    !.pc = "basic_qos",
                    !.channel = Some(channel),
                    !.connected = Some(connected)]
    /\ broker' = [broker EXCEPT !.channels = Append(@, None)]
    /\ inv' = [inv EXCEPT !.calls = Called(Resolved(@, "ok"), "basic_qos")]
    /\ UNCHANGED <<spawn_params, lode, outcome, flags, tasks, pool, stats>>

\* CreateChannelErr with the failure escalated to Fatal.
CreateChannelErr_Fatal ==
    /\ fut.pc = "create_channel"
    /\ outcome' = Outcome("Fatal", "create_channel", None, None, None,
                          Some(flags[fut.heartbeat_gone[1]]))
    /\ lode' = [lode EXCEPT !.fatal = TRUE]
    /\ fut' = IdleFuture
    /\ inv' = [inv EXCEPT !.calls = Resolved(@, "err")]
    /\ UNCHANGED <<spawn_params, flags, tasks, pool, broker, stats>>

\* CreateChannelErr calling create_channel once more instead of failing (the
\* engine's bound on invocations stands in for a bound on the attempts).
CreateChannelErr_Retry ==
    /\ fut.pc = "create_channel"
    /\ Len(inv.calls) < MaxInvocations
    /\ inv' = [inv EXCEPT !.calls = Called(Resolved(@, "err"), "create_channel")]
    /\ UNCHANGED <<spawn_params, lode, fut, outcome, flags, tasks, pool, broker, stats>>

\* create_channel fails: Recoverable with the InitState.
CreateChannelErr ==
    /\ fut.pc = "create_channel"
    /\ outcome' = Outcome("Recoverable", "create_channel", fut.init_state, None, None,
                          Some(flags[fut.heartbeat_gone[1]]))
    /\ lode' = [lode EXCEPT !.state = fut.init_state]
    /\ fut' = IdleFuture
    /\ inv' = [inv EXCEPT !.calls = Resolved(@, "err")]
    /\ stats' = [stats EXCEPT !.recoverable = @ + 1, !.aquire_errors = @ + 1]
    /\ UNCHANGED <<spawn_params, flags, tasks, pool, broker>>

\* BasicQosOk with prefetch_count left at the default of BasicQosOptions.
BasicQosOk_DefaultQos ==
    /\ fut.pc = "basic_qos"
    /\ LET channel == fut.channel[1]
           connected == fut.connected[1]
       IN /\ broker' = [broker EXCEPT !.channels[channel.id] = Some(0)]
          /\ outcome' = Outcome("Ok", "basic_qos", None, Some(connected), Some(channel),
                                Some(flags[connected.heartbeat_gone]))
          /\ lode' = [lode EXCEPT !.connected = Some(connected), !.lent = Some(channel)]
    /\ fut' = IdleFuture
    /\ inv' = [inv EXCEPT !.calls = Resolved(@, "ok")]
    /\ UNCHANGED <<spawn_params, flags, tasks, pool, stats>>

\* basic_qos succeeds: the broker holds the prefetch_count for the channel,
\* Ok((channel, connected)); the engine lends the channel out.
BasicQosOk ==
    /\ fut.pc = "basic_qos"
    /\ LET channel == fut.channel[1]
           connected == fut.connected[1]
       IN /\ broker' = [broker EXCEPT !.channels[channel.id] =
                            Some(connected.init_state.amqp_params.prefetch_count)]
          /\ outcome' = Outcome("Ok", "basic_qos", None, Some(connected), Some(channel),
                                Some(flags[connected.heartbeat_gone]))
          /\ lode' = [lode EXCEPT !.connected = Some(connected), !.lent = Some(channel)]
    /\ fut' = IdleFuture
    /\ inv' = [inv EXCEPT !.calls = Resolved(@, "ok")]
    /\ UNCHANGED <<spawn_params, flags, tasks, pool, stats>>

\* BasicQosErr handing the channel out although basic_qos failed.
BasicQosErr_HandsOut ==
    /\ fut.pc = "basic_qos"
    /\ outcome' = Outcome("Ok", "basic_qos", None, fut.connected, fut.channel,
                          Some(flags[fut.connected[1].heartbeat_gone]))
    /\ lode' = [lode EXCEPT !.connected = fut.connected, !.lent = fut.channel]
    /\ fut' = IdleFuture
    /\ inv' = [inv EXCEPT !.calls = Resolved(@, "err")]
    /\ UNCHANGED <<spawn_params, flags, tasks, pool, broker, stats>>

\* basic_qos fails: Recoverable with the InitState of the connected value.
BasicQosErr ==
    /\ fut.pc = "basic_qos"
    /\ outcome' = Outcome("Recoverable", "basic_qos", Some(fut.connected[1].init_state),
                          None, None, Some(flags[fut.connected[1].heartbeat_gone]))
    /\ lode' = [lode EXCEPT !.state = Some(fut.connected[1].init_state)]
    /\ fut' = IdleFuture
    /\ inv' = [inv EXCEPT !.calls = Resolved(@, "err")]
    /\ stats' = [stats EXCEPT !.recoverable = @ + 1, !.aquire_errors = @ + 1]
    /\ UNCHANGED <<spawn_params, flags, tasks, pool, broker>>

\* ----------------------------------------------------------------- release
\* release is invoked with the connected value and the channel lent out, if
\* any (_maybe_session).
ReleaseCall ==
    /\ CanInvoke
    /\ lode.connected # None
    /\ fut' = [IdleFuture EXCEPT !.pc = "release_lazy", !.connected = lode.connected,
                                 !.channel = lode.lent]
    /\ lode' = [lode EXCEPT !.connected = None, !.lent = None]
    /\ inv' = Invocation("release", None, lode.connected, lode.lent, <<>>)
    /\ outcome' = Pending
    /\ stats' = [stats EXCEPT !.invocations = @ + 1]
    /\ UNCHANGED <<spawn_params, flags, tasks, pool, broker>>

\* ReleaseHeartbeatGone storing false into the cell before it gives the
\* InitState back.
ReleaseHeartbeatGone_ResetFlag ==
    /\ fut.pc = "release_lazy"
    /\ flags[fut.connected[1].heartbeat_gone]
    /\ outcome' = Outcome("Recoverable", "heartbeat_gone", Some(fut.connected[1].init_state),
                          None, None, Some(flags[fut.connected[1].heartbeat_gone]))
    /\ lode' = [lode EXCEPT !.state = Some(fut.connected[1].init_state)]
    /\ fut' = IdleFuture
    /\ inv' = [inv EXCEPT !.gone_read = Some(flags[fut.connected[1].heartbeat_gone])]
    /\ stats' = [stats EXCEPT !.recoverable = @ + 1]
    /\ flags' = [flags EXCEPT ![fut.connected[1].heartbeat_gone] = FALSE]
    /\ UNCHANGED <<spawn_params, tasks, pool, broker>>

\* The lazy closure loads true: Recoverable with the InitState.
ReleaseHeartbeatGone ==
    /\ fut.pc = "release_lazy"
    /\ flags[fut.connected[1].heartbeat_gone]
    /\ outcome' = Outcome("Recoverable", "heartbeat_gone", Some(fut.connected[1].init_state),
                          None, None, Some(flags[fut.connected[1].heartbeat_gone]))
    /\ lode' = [lode EXCEPT !.state = Some(fut.connected[1].init_state)]
    /\ fut' = IdleFuture
    /\ inv' = [inv EXCEPT !.gone_read = Some(flags[fut.connected[1].heartbeat_gone])]
    /\ stats' = [stats EXCEPT !.recoverable = @ + 1]
    /\ UNCHANGED <<spawn_params, flags, tasks, pool, broker>>

\* ReleaseHeartbeatAlive giving the connected value back whatever the cell
\* holds.
ReleaseHeartbeatAlive_NoCheck ==
    /\ fut.pc = "release_lazy"
    /\ outcome' = Outcome("Ok", "release", None, fut.connected, None,
                          Some(flags[fut.connected[1].heartbeat_gone]))
    /\ lode' = [lode EXCEPT !.connected = fut.connected]
    /\ fut' = IdleFuture
    /\ inv' = [inv EXCEPT !.gone_read = Some(flags[fut.connected[1].heartbeat_gone])]
    /\ UNCHANGED <<spawn_params, flags, tasks, pool, broker, stats>>

\* ReleaseHeartbeatAlive closing the returned channel on the broker.
ReleaseHeartbeatAlive_ClosesChannel ==
    /\ fut.pc = "release_lazy"
    /\ ~flags[fut.connected[1].heartbeat_gone]
    /\ outcome' = Outcome("Ok", "release", None, fut.connected, None,
                          Some(flags[fut.connected[1].heartbeat_gone]))
    /\ lode' = [lode EXCEPT !.connected = fut.connected]
    /\ broker' = IF fut.channel = None THEN broker
                 ELSE [broker EXCEPT !.channels[fut.channel[1].id] = None]
    /\ fut' = IdleFuture
    /\ inv' = [inv EXCEPT !.gone_read = Some(flags[fut.connected[1].heartbeat_gone])]
    /\ UNCHANGED <<spawn_params, flags, tasks, pool, stats>>

\* ReleaseHeartbeatAlive not resolving while the cell holds false: release
\* waits for the heartbeat task to end.
ReleaseHeartbeatAlive_WaitsForHeartbeat ==
    /\ fut.pc = "release_lazy"
    /\ ~flags[fut.connected[1].heartbeat_gone]
    /\ UNCHANGED vars

\* The lazy closure loads false: Ok(connected).
ReleaseHeartbeatAlive ==
    /\ fut.pc = "release_lazy"
    /\ ~flags[fut.connected[1].heartbeat_gone]
    /\ outcome' = Outcome("Ok", "release", None, fut.connected, None,
                          Some(flags[fut.connected[1].heartbeat_gone]))
    /\ lode' = [lode EXCEPT !.connected = fut.connected]
    /\ fut' = IdleFuture
    /\ inv' = [inv EXCEPT !.gone_read = Some(flags[fut.connected[1].heartbeat_gone])]
    /\ UNCHANGED <<spawn_params, flags, tasks, pool, broker, stats>>

\* ------------------------------------------------------------------- close
\* Close giving back an InitState with AmqpParams::default().
Close_DefaultParams ==
    /\ CanInvoke
    /\ lode.connected # None
    /\ LET state == Some(InitState(DefaultAmqpParams,
                                   lode.connected[1].init_state.tcp_lode,
                                   lode.connected[1].init_state.executor))
       IN /\ outcome' = Outcome("Ok", "close", state, None, None,
                                Some(flags[lode.connected[1].heartbeat_gone]))
          /\ lode' = [lode EXCEPT !.state = state, !.connected = None, !.lent = None]
    /\ inv' = Invocation("close", None, lode.connected, None, <<>>)
    /\ stats' = [stats EXCEPT !.invocations = @ + 1]
    /\ UNCHANGED <<spawn_params, fut, flags, tasks, pool, broker>>

\* Close failing with Recoverable when the cell holds true, as release does.
Close_FailsWhenGone ==
    /\ CanInvoke
    /\ lode.connected # None
    /\ outcome' = Outcome(IF flags[lode.connected[1].heartbeat_gone]
                          THEN "Recoverable" ELSE "Ok",
                          "close", Some(lode.connected[1].init_state), None, None,
                          Some(flags[lode.connected[1].heartbeat_gone]))
    /\ lode' = [lode EXCEPT !.state = Some(lode.connected[1].init_state),
                            !.connected = None, !.lent = None]
    /\ inv' = Invocation("close", None, lode.connected, None, <<>>)
    /\ stats' = [stats EXCEPT !.invocations = @ + 1]
    /\ UNCHANGED <<spawn_params, fut, flags, tasks, pool, broker>>

\* close: result(Ok(connected.init_state)), resolved as soon as it is made.
Close ==
    /\ CanInvoke
    /\ lode.connected # None
    /\ outcome' = Outcome("Ok", "close", Some(lode.connected[1].init_state), None, None,
                          Some(flags[lode.connected[1].heartbeat_gone]))
    /\ lode' = [lode EXCEPT !.state = Some(lode.connected[1].init_state),
                            !.connected = None, !.lent = None]
    /\ inv' = Invocation("close", None, lode.connected, None, <<>>)
    /\ stats' = [stats EXCEPT !.invocations = @ + 1]
    /\ UNCHANGED <<spawn_params, fut, flags, tasks, pool, broker>>

\* ---------------------------------------------------------- specifications
Next ==
    \/ InitCall
    \/ InitStealErr
    \/ InitStealOk
    \/ InitConnectOk
    \/ InitConnectErr
    \/ \E t \in 1..Len(tasks), res \in {"ok", "err"} : HeartbeatDone(t, res)
    \/ AquireCall
    \/ AquireHeartbeatGone
    \/ AquireHeartbeatAlive
    \/ CreateChannelOk
    \/ CreateChannelErr
    \/ BasicQosOk
    \/ BasicQosErr
    \/ ReleaseCall
    \/ ReleaseHeartbeatGone
    \/ ReleaseHeartbeatAlive
    \/ Close

Spec == Init /\ [][Next]_vars

\* Every primitive called responds and every future made is polled; nothing
\* is assumed of the heartbeat task or of when the engine invokes a callback.
SpecFair ==
    /\ Spec
    /\ WF_vars(InitStealErr \/ InitStealOk)
    /\ WF_vars(InitConnectOk \/ InitConnectErr)
    /\ WF_vars(AquireHeartbeatGone \/ AquireHeartbeatAlive)
    /\ WF_vars(CreateChannelOk \/ CreateChannelErr)
    /\ WF_vars(BasicQosOk \/ BasicQosErr)
    /\ WF_vars(ReleaseHeartbeatGone \/ ReleaseHeartbeatAlive)

\* A broker that rejects the handshake n times and then accepts.
InitRetry ==
    /\ \E params \in SpawnParams : SpawnInit(params)
    /\ \E n \in 0..MaxRejects :
          broker = [channels |-> <<>>, script |-> Some(n), rejects |-> Some(n)]

\* The harness of the retry scenario: it invokes init again after each
\* Recoverable outcome, the transport pool always has a resource.
NextRetry ==
    \/ InitCall
    \/ InitStealOk
    \/ InitConnectOk
    \/ InitConnectErr
    \/ \E t \in 1..Len(tasks), res \in {"ok", "err"} : HeartbeatDone(t, res)

SpecRetry == InitRetry /\ [][NextRetry]_vars

\* The harness keeps invoking init and every primitive called responds.
SpecRetryFair == SpecRetry /\ WF_vars(NextRetry)

\* ================================================================== claims
\* The callback named op has resolved.
Returned(op) == inv.op = op /\ outcome.tag # "Pending"

\* The primitives the current invocation called, with their results.
CallsAre(prims, results) ==
    /\ Len(inv.calls) = Len(prims)
    /\ \A i \in 1..Len(prims) :
          inv.calls[i] = [prim |-> prims[i], res |-> results[i]]

\* The current invocation ended in the failure of the primitive prim.
FailedAt(prim) ==
    /\ inv.calls # <<>>
    /\ inv.calls[Len(inv.calls)] = [prim |-> prim, res |-> "err"]

\* Every InitState there is: at rest with the engine, captured by the running
\* future, carried by the outcome, or inside an AmqpConnected in these places.
Elements(opt) == {opt[i] : i \in 1..Len(opt)}
AllConnected == Elements(lode.connected) \cup Elements(fut.connected)
                    \cup Elements(outcome.connected)
AllInitStates == Elements(lode.state) \cup Elements(fut.init_state)
                    \cup Elements(outcome.state)
                    \cup {c.init_state : c \in AllConnected}

\* C1, as stated: whenever aquire resolves Ok and hands a channel out, the
\* liveness cell of the connected value reads false at that moment, for every
\* interleaving of the heartbeat task's end with the steps of aquire.
C1_FlagFalseAtHandOut ==
    (Returned("aquire") /\ outcome.tag = "Ok") => outcome.gone = Some(FALSE)

\* C1, amended: whenever aquire resolves Ok and hands a channel out, the load
\* made by its flag check, before create_channel and basic_qos, gave false
\* (the cell may have been set since).
C1_FlagFalseAtCheck ==
    /\ fut.pc \in {"create_channel", "basic_qos"} => inv.gone_read = Some(FALSE)
    /\ (Returned("aquire") /\ outcome.tag = "Ok") =>
          /\ inv.gone_read = Some(FALSE)
          /\ CallsAre(<<"create_channel", "basic_qos">>, <<"ok", "ok">>)

\* A channel is handed out after the heartbeat task ended during aquire.
C1_Witness ==
    /\ Returned("aquire") /\ outcome.tag = "Ok"
    /\ inv.gone_read = Some(FALSE)
    /\ outcome.gone = Some(TRUE)

\* C2: when the liveness cell of a connected value holds true, the next
\* aquire or release invoked on it resolves Recoverable carrying the embedded
\* InitState, with no channel and no connected value.
C2_GoneFlagGivesRecoverable ==
    (/\ Returned("aquire") \/ Returned("release")
     /\ inv.gone_at_call = Some(TRUE) \/ inv.gone_read = Some(TRUE)) =>
        /\ outcome.tag = "Recoverable"
        /\ outcome.state = Some(inv.arg_connected[1].init_state)
        /\ outcome.channel = None
        /\ outcome.connected = None
        /\ lode.connected = None
        /\ inv.calls = <<>>

\* release resolved on a connected value whose cell held true when invoked.
C2_Witness ==
    /\ Returned("release")
    /\ inv.gone_at_call = Some(TRUE)
    /\ outcome.tag = "Recoverable"

\* C3: a Fatal outcome is produced exactly when the steal_resource of init
\* fails; aquire, release, close and a failed handshake never give Fatal.
C3_FatalOnlyOnStealFailure ==
    /\ outcome.tag = "Fatal" <=>
          (inv.op = "init" /\ CallsAre(<<"steal_resource">>, <<"err">>))
    /\ lode.fatal <=> outcome.tag = "Fatal"

\* init resolved Fatal.
C3_Witness ==
    /\ Returned("init")
    /\ outcome.tag = "Fatal"
    /\ FailedAt("steal_resource")

\* C4: when steal_resource succeeds and the handshake fails, init resolves
\* Recoverable with an InitState of the same parameters and the lode handle
\* steal_resource gave back, makes no connected value, and init can be
\* invoked on that InitState again.
C4_HandshakeFailureRecoverable ==
    (inv.op = "init" /\ CallsAre(<<"steal_resource", "connect">>, <<"ok", "err">>)) =>
        /\ outcome.tag = "Recoverable"
        /\ outcome.state = Some(InitState(inv.arg_state[1].amqp_params,
                                          TcpLode(pool.stolen),
                                          inv.arg_state[1].executor))
        /\ outcome.connected = None
        /\ lode.connected = None
        /\ lode.state = outcome.state
        /\ stats.invocations < MaxInvocations => ENABLED InitCall

\* init resolved Recoverable after a failed handshake.
C4_Witness ==
    /\ Returned("init")
    /\ FailedAt("connect")
    /\ outcome.tag = "Recoverable"
    /\ inv.arg_state[1].tcp_lode # outcome.state[1].tcp_lode

\* C5: when create_channel or basic_qos fails, aquire resolves Recoverable
\* with the InitState of the connected value it was given (same
\* prefetch_count), the connection is dropped and no channel handed out; an
\* aquire that succeeds on a later connection has that prefetch_count applied.
C5_AquireFailureKeepsParams ==
    /\ (inv.op = "aquire" /\ (FailedAt("create_channel") \/ FailedAt("basic_qos"))) =>
          /\ outcome.tag = "Recoverable"
          /\ outcome.state = Some(inv.arg_connected[1].init_state)
          /\ outcome.state[1].amqp_params.prefetch_count = spawn_params.prefetch_count
          /\ outcome.channel = None
          /\ outcome.connected = None
          /\ lode.connected = None
          /\ lode.lent = None
          /\ lode.state = outcome.state
    /\ (Returned("aquire") /\ outcome.tag = "Ok" /\ stats.aquire_errors > 0) =>
          broker.channels[outcome.channel[1].id] = Some(spawn_params.prefetch_count)

\* spawned with prefetch_count 16, basic_qos failed once, and aquire on the
\* connection of a later init handed a channel out.
C5_Witness ==
    /\ spawn_params.prefetch_count = 16
    /\ Returned("aquire") /\ outcome.tag = "Ok"
    /\ stats.aquire_errors = 1
    /\ \E c \in 1..Len(broker.channels) : broker.channels[c] = None
    /\ outcome.connected[1].client.id = 2
    /\ broker.channels[outcome.channel[1].id] = Some(16)

\* C6: every channel aquire hands out has had basic_qos succeed with the
\* configured prefetch_count; a channel whose basic_qos failed is never lent.
C6_HandedOutChannelHasQos ==
    /\ (Returned("aquire") /\ outcome.tag = "Ok") =>
          /\ CallsAre(<<"create_channel", "basic_qos">>, <<"ok", "ok">>)
          /\ broker.channels[outcome.channel[1].id] =
                Some(outcome.connected[1].init_state.amqp_params.prefetch_count)
    /\ \A ch \in Elements(lode.lent) \cup Elements(outcome.channel) :
          broker.channels[ch.id] # None

\* A channel is on loan while another channel, whose basic_qos failed, exists.
C6_Witness ==
    /\ lode.lent # None
    /\ \E c \in 1..Len(broker.channels) : broker.channels[c] = None

\* C7: a successful aquire or release gives back the connected value it was
\* given (same client, same cell, same InitState), and since the init that
\* made it no steal_resource and no handshake has taken place.
C7_ConnectedReused ==
    ((Returned("aquire") \/ Returned("release")) /\ outcome.tag = "Ok") =>
        /\ outcome.connected = inv.arg_connected
        /\ lode.connected = inv.arg_connected
        /\ \A i \in 1..Len(inv.calls) :
              inv.calls[i].prim \notin {"steal_resource", "connect"}
        /\ outcome.connected[1].client.tcp_stream.id = pool.stolen
        /\ outcome.connected[1].client.id = stats.connect_calls

\* A second aquire succeeded on the connected value a release gave back.
C7_Witness ==
    /\ Returned("aquire") /\ outcome.tag = "Ok"
    /\ outcome.channel[1].id = 2
    /\ outcome.channel[1].client = outcome.connected[1].client.id
    /\ Len(flags) = 1
    /\ stats.recoverable = 0

\* C8: when the heartbeat task of a connection has ended, with Ok or Err,
\* while a channel of it is on loan, release resolves Recoverable with the
\* InitState and not with the connected value.
C8_ReleaseAfterHeartbeatEnd ==
    (/\ Returned("release")
     /\ inv.arg_session # None
     /\ inv.task_at_call \in {Some("ok"), Some("err")}) =>
        /\ outcome.tag = "Recoverable"
        /\ outcome.state = Some(inv.arg_connected[1].init_state)
        /\ outcome.connected = None
        /\ lode.connected = None

\* The heartbeat task ended with an error after the channel was lent, and
\* release resolved.
C8_Witness ==
    /\ Returned("release")
    /\ inv.arg_session # None
    /\ inv.task_at_call = Some("err")
    /\ outcome.tag = "Recoverable"

\* C9: the parameters are never changed: every InitState, wherever it is,
\* holds the parameters spawn was given; close gives back the InitState of
\* the connected value it was given.
C9_ParamsNeverChange ==
    /\ \A init_state \in AllInitStates : init_state.amqp_params = spawn_params
    /\ Returned("close") =>
          /\ outcome.tag = "Ok"
          /\ outcome.state # None
          /\ outcome.state[1].amqp_params = inv.arg_connected[1].init_state.amqp_params

\* init followed at once by close, with parameters other than the default.
C9_Witness ==
    /\ Returned("close")
    /\ stats.invocations = 2
    /\ stats.init_calls = 1
    /\ spawn_params # DefaultAmqpParams
    /\ lode.state = Some(InitState(spawn_params, TcpLode(1), "executor"))

\* The retry scenario, at every moment: with a broker that rejects n handshakes and then accepts,
\* init is invoked n + 1 times at most, each of the first n resolves
\* Recoverable, and the (n + 1)th resolves Ok with the spawn parameters, a
\* new cell holding false and the only heartbeat task spawned in the run.
RetryInvariant ==
    LET n == broker.rejects[1]
    IN /\ stats.init_calls <= n + 1
       /\ (Returned("init") /\ stats.init_calls <= n) =>
             /\ outcome.tag = "Recoverable"
             /\ stats.recoverable = stats.init_calls
             /\ tasks = <<>>
       /\ (Returned("init") /\ stats.init_calls = n + 1) =>
             /\ outcome.tag = "Ok"
             /\ stats.recoverable = n
             /\ outcome.connected =
                   Some(AmqpConnected(InitState(spawn_params, TcpLode(n + 1), "executor"),
                                      [id |-> n + 1, tcp_stream |-> [id |-> n + 1]], 1))
             /\ outcome.gone = Some(FALSE)
             /\ Len(flags) = 1
             /\ Len(tasks) = 1
             /\ tasks[1].flag = 1
             /\ tasks[1].status = "running" => ~flags[1]
       /\ outcome.tag = "Ok" => stats.init_calls = n + 1

\* The (n + 1)th init has resolved Ok.
RetryAccepted ==
    /\ Returned("init") /\ outcome.tag = "Ok"
    /\ stats.init_calls = broker.rejects[1] + 1

\* C10 (SpecRetryFair): with a broker that rejects n handshakes and then
\* accepts and a harness that invokes init again after each Recoverable
\* outcome, init is invoked exactly n + 1 times: the first n resolve
\* Recoverable and the (n + 1)th comes and resolves Ok with the spawn
\* parameters, a new cell holding false and one heartbeat task in all.
C10_RetryUntilAccepted == []RetryInvariant /\ <>RetryAccepted

\* The broker rejected two handshakes and the third init resolved Ok.
C10_Witness ==
    /\ broker.rejects = Some(2)
    /\ Returned("init") /\ outcome.tag = "Ok"
    /\ stats.init_calls = 3
    /\ stats.recoverable = 2


\* A step in which a callback future or the engine moves.
CallbackStep == <<lode, fut, inv, outcome>>

\* C11: a liveness cell is written once: it starts false, it only ever goes
\* from false to true, the step that sets it is the end (with Ok or Err) of
\* the heartbeat task holding it, a task that has ended stores nothing more,
\* and no step of init, aquire, release or close writes a cell.
C11_FlagWrittenOnce ==
    [][/\ Len(flags') >= Len(flags)
       /\ \A i \in (Len(flags) + 1)..Len(flags') : ~flags'[i]
       /\ \A i \in 1..Len(flags) :
             /\ flags[i] => flags'[i]
             /\ (~flags[i] /\ flags'[i]) =>
                   /\ TaskStatus(i) = "running"
                   /\ TaskStatus(i)' \in {"ok", "err"}
                   /\ UNCHANGED CallbackStep
       /\ \A t \in 1..Len(tasks) :
             tasks[t].status # "running" => tasks'[t] = tasks[t]
       /\ CallbackStep' # CallbackStep => flags' \in {flags, Append(flags, FALSE)}
      ]_vars

\* The cell of a connection was set by the end of its heartbeat task and
\* release has since read it.
C11_Witness ==
    /\ Returned("release")
    /\ inv.gone_at_call = Some(FALSE)
    /\ inv.gone_read = Some(TRUE)
    /\ flags[inv.arg_connected[1].heartbeat_gone]
    /\ TaskStatus(inv.arg_connected[1].heartbeat_gone) = "ok"

\* C12: once the heartbeat task of a connection has ended, the load made by
\* an aquire or a release invoked afterwards on its connected value gives
\* true.
C12_EndedTaskIsSeen ==
    (/\ inv.op \in {"aquire", "release"}
     /\ inv.task_at_call \in {Some("ok"), Some("err")}) =>
        /\ inv.gone_at_call = Some(TRUE)
        /\ inv.gone_read \in {None, Some(TRUE)}
        /\ fut.pc \in {"idle", "aquire_lazy", "release_lazy"}
        /\ Returned(inv.op) => inv.gone_read = Some(TRUE) /\ outcome.stage = "heartbeat_gone"

\* aquire was invoked after the heartbeat task ended with Ok, and has read
\* the cell.
C12_Witness ==
    /\ Returned("aquire")
    /\ inv.task_at_call = Some("ok")
    /\ inv.gone_read = Some(TRUE)


\* C13: close never fails: whatever the cell of the connected value holds,
\* close resolves Ok with the embedded InitState (same parameters, same lode
\* handle) and calls neither the transport pool nor the broker client.
C13_CloseNeverFails ==
    [][inv'.op = "close" /\ inv' # inv =>
          /\ lode.connected # None
          /\ outcome'.tag = "Ok"
          /\ outcome'.state = Some(lode.connected[1].init_state)
          /\ lode'.state = outcome'.state
          /\ outcome'.connected = None /\ lode'.connected = None
          /\ inv'.calls = <<>>
          /\ fut'.pc = "idle"
          /\ UNCHANGED <<pool, broker, flags, tasks>>
      ]_vars

\* close resolved on a connected value whose cell held true.
C13_Witness ==
    /\ Returned("close")
    /\ inv.gone_at_call = Some(TRUE)
    /\ outcome.tag = "Ok"
    /\ lode.state = Some(inv.arg_connected[1].init_state)

\* C14: when its load gives false, release resolves Ok with the connected
\* value it was given (same InitState, client and cell), with the lent
\* channel present or absent, and touches neither the broker nor the pool.
C14_ReleaseGivesConnectedBack ==
    [][fut.pc = "release_lazy" =>
          /\ UNCHANGED <<pool, broker>>
          /\ (fut'.pc = "idle" /\ ~flags[fut.connected[1].heartbeat_gone]) =>
                /\ outcome'.tag = "Ok"
                /\ outcome'.connected = inv.arg_connected
                /\ lode'.connected = inv.arg_connected
                /\ outcome'.state = None
                /\ inv'.gone_read = Some(FALSE)
                /\ inv'.calls = <<>>
      ]_vars

\* release resolved Ok with the connected value, the lent channel given.
C14_Witness ==
    /\ Returned("release")
    /\ inv.arg_session # None
    /\ inv.gone_read = Some(FALSE)
    /\ outcome.connected = inv.arg_connected
    /\ broker.channels[inv.arg_session[1].id] # None


\* The places an InitState can be in: at rest with the engine, taken apart
\* inside the running future, or inside the connected value that the engine
\* or the running future holds.
InitStateCount ==
    Len(lode.state) + Len(fut.init_state) + Len(lode.connected) + Len(fut.connected)

\* C15, as stated: in every reachable state there is exactly one InitState.
C15_ExactlyOneInitState == InitStateCount = 1

\* C15, amended: there is exactly one InitState at any time until init ends
\* Fatal, and none from then on (the failed steal_resource consumed the lode
\* handle and the parameters were dropped with the closure); the InitState a
\* Recoverable outcome carries is the one the engine then holds at rest.
C15_OneInitStateUntilFatal ==
    /\ InitStateCount = (IF lode.fatal THEN 0 ELSE 1)
    /\ outcome.tag = "Recoverable" => outcome.state = lode.state /\ lode.state # None
    /\ Len(lode.connected) + Len(fut.connected) + Len(fut.client) <= 1

\* init has been invoked twice and the InitState is inside the connected
\* value, which the running aquire holds.
C15_Witness ==
    /\ stats.init_calls = 2
    /\ fut.pc = "basic_qos"
    /\ lode.state = None
    /\ InitStateCount = 1

\* The shape of the primitives called by one invocation: init calls
\* steal_resource and then connect, aquire create_channel and then basic_qos,
\* release and close nothing.
CallOrder(op) ==
    IF op = "init" THEN <<"steal_resource", "connect">>
    ELSE IF op = "aquire" THEN <<"create_channel", "basic_qos">>
    ELSE <<>>

\* C16: no callback retries: one invocation calls each of its primitives
\* once at most and in order, each only after the earlier ones succeeded;
\* aquire calls nothing when its load gives true; the first failure resolves
\* the invocation at once with Fatal or Recoverable.
C16_NoInternalRetry ==
    /\ Len(inv.calls) <= Len(CallOrder(inv.op))
    /\ \A i \in 1..Len(inv.calls) :
          /\ inv.calls[i].prim = CallOrder(inv.op)[i]
          /\ i < Len(inv.calls) => inv.calls[i].res = "ok"
          /\ inv.calls[i].res = "pending" => fut.pc = inv.calls[i].prim
          /\ inv.calls[i].res = "err" =>
                /\ fut.pc = "idle"
                /\ outcome.tag = (IF inv.calls[i].prim = "steal_resource"
                                  THEN "Fatal" ELSE "Recoverable")
                /\ outcome.stage = inv.calls[i].prim
    /\ (inv.op = "aquire" /\ inv.gone_read = Some(TRUE)) =>
          /\ inv.calls = <<>>
          /\ outcome.tag = "Recoverable"
    /\ (inv.op = "aquire" /\ inv.gone_read = None) => inv.calls = <<>>

\* aquire resolved at the failure of its one create_channel call.
C16_Witness ==
    /\ Returned("aquire")
    /\ CallsAre(<<"create_channel">>, <<"err">>)
    /\ outcome.tag = "Recoverable"


\* C17: the step in which init resolves Ok makes one new cell holding false
\* and spawns one heartbeat task bound to it, the cell of the connected value
\* it gives; no other step makes a cell or spawns a task, so the tasks ever
\* spawned are as many as the init invocations that resolved Ok.
C17_OneTaskPerSuccessfulInit ==
    [][IF fut.pc = "connect" /\ outcome'.tag = "Ok"
       THEN /\ flags' = Append(flags, FALSE)
            /\ tasks' = Append(tasks, [flag |-> Len(flags'), status |-> "running"])
            /\ outcome'.connected[1].heartbeat_gone = Len(flags')
            /\ \A t \in 1..Len(tasks) : tasks[t].flag # Len(flags')
       ELSE /\ Len(flags') = Len(flags)
            /\ Len(tasks') = Len(tasks)
            /\ \A t \in 1..Len(tasks) : tasks'[t].flag = tasks[t].flag
      ]_vars

\* Three init invocations: two resolved Ok, one Recoverable, two tasks.
C17_Witness ==
    /\ Returned("init") /\ outcome.tag = "Ok"
    /\ stats.init_calls = 3
    /\ stats.recoverable = 1
    /\ FailedAt("connect") = FALSE
    /\ Len(tasks) = 2
    /\ Len(flags) = 2

\* The outcome is one of the classified ones.
Classified ==
    \/ outcome.tag = "Ok" /\ (outcome.state # None \/ outcome.connected # None)
    \/ outcome.tag = "Recoverable" /\ outcome.state # None /\ outcome.connected = None
    \/ outcome.tag = "Fatal" /\ outcome.state = None /\ outcome.connected = None

\* C18 (SpecFair): when every primitive called responds, every invocation of
\* init, aquire, release and close resolves, with one classified outcome (Ok,
\* Recoverable with an InitState, or Fatal), whether or not the heartbeat task
\* ever ends.
C18_EveryInvocationResolves ==
    /\ [](fut.pc = "idle" <=> (inv.op = "none" \/ outcome.tag # "Pending"))
    /\ [](outcome.tag # "Pending" => Classified)
    /\ [][outcome.tag # "Pending" /\ outcome' # outcome =>
             stats'.invocations = stats.invocations + 1]_vars
    /\ (fut.pc # "idle") ~> (fut.pc = "idle" /\ outcome.tag # "Pending")

\* aquire and then release resolved while the heartbeat task was running.
C18_Witness ==
    /\ Returned("release")
    /\ inv.arg_session # None
    /\ outcome.tag = "Ok"
    /\ \A t \in 1..Len(tasks) : tasks[t].status = "running"


\* The connected values the engine or the running future holds, by cell.
HeldCells ==
    {c.heartbeat_gone : c \in Elements(lode.connected) \cup Elements(fut.connected)}
        \cup Elements(fut.heartbeat_gone)

\* C19: the cells of different connections are independent: the end of a
\* heartbeat task sets the cell that task was spawned with and no other, no
\* two tasks hold the same cell, and so the end of the task of a discarded
\* connection leaves the cell of the connected value of a later init as it
\* was.
C19_FlagsIndependent ==
    [][\A t \in 1..Len(tasks) :
          (tasks[t].status = "running" /\ tasks'[t].status # "running") =>
              /\ \A i \in 1..Len(flags) : i # tasks[t].flag => flags'[i] = flags[i]
              /\ \A u \in 1..Len(tasks) : u # t => tasks[u].flag # tasks[t].flag
              /\ \A cell \in HeldCells : cell # tasks[t].flag => flags'[cell] = flags[cell]
              /\ (tasks[t].flag \notin HeldCells) =>
                    \A cell \in HeldCells : flags'[cell] = flags[cell]
      ]_vars

\* The task of the first, discarded connection has ended and the cell of
\* the connected value of the second init holds false.
C19_Witness ==
    /\ Len(tasks) = 2
    /\ tasks[1].status = "err"
    /\ tasks[2].status = "running"
    /\ lode.connected # None
    /\ lode.connected[1].heartbeat_gone = 2
    /\ flags = <<TRUE, FALSE>>

\* C20: the cell gives no false alarm: a cell holds true only if the task
\* spawned with it has ended, so aquire and release resolve Recoverable at
\* the flag check only for a connected value whose heartbeat task has ended.
C20_NoFalseAlarm ==
    /\ \A i \in 1..Len(flags) :
          flags[i] => /\ \E t \in 1..Len(tasks) : tasks[t].flag = i
                      /\ \A t \in 1..Len(tasks) :
                            tasks[t].flag = i => tasks[t].status \in {"ok", "err"}
    /\ (inv.op \in {"aquire", "release"} /\ outcome.stage = "heartbeat_gone") =>
          /\ inv.gone_read = Some(TRUE)
          /\ TaskStatus(inv.arg_connected[1].heartbeat_gone) \in {"ok", "err"}
    /\ (inv.op \in {"aquire", "release"} /\ outcome.tag # "Pending"
           /\ TaskStatus(inv.arg_connected[1].heartbeat_gone) = "running") =>
          outcome.stage # "heartbeat_gone"

\* aquire resolved at a failed create_channel, and not at the flag check,
\* while the heartbeat task was running.
C20_Witness ==
    /\ Returned("aquire")
    /\ TaskStatus(inv.arg_connected[1].heartbeat_gone) = "running"
    /\ outcome.tag = "Recoverable"
    /\ outcome.stage = "create_channel"

====
